---- MODULE Spec2Model ----
(***************************************************************************)
(* A model of the manual-acquisition pipeline of manuals_scraper.py:       *)
(* product merge, year resolution, publications parsing, Owner's-Manual    *)
(* selection, PDF-link resolution, download, and the main loop.            *)
(*                                                                         *)
(* Python values are tagged records: None, str (a sequence of one-         *)
(* character strings), int, list and dict (a sequence of key/value items,  *)
(* in insertion order).  dict.get(k) of a missing key is None.             *)
(***************************************************************************)
EXTENDS Integers, Sequences, FiniteSets, TLC

VARIABLES
    pc,            \* position of the running function or of main
    all_products,  \* main: the catalog as fetched (pre-merge list)
    merged,        \* merge_products_latest(all_products)
    remerged,      \* merge_products_latest(merged)
    prod,          \* the product a function is called with
    years,         \* years_for_same_product's return value
    next_data,     \* the hydration payload handed to collect_publications
    pubs,          \* a Publication list
    om,            \* the selected publication
    ret,           \* the return value (or raised error) of the last call
    resp,          \* the last response received from the network
    pdf_url,       \* the direct download URL handed to download_pdf
    path,          \* download_pdf: the target path
    calls,         \* the download_pdf calls finished so far
    files,         \* the output directory: path -> content state
    net,           \* requests sent so far, per endpoint
    products,      \* main: base_list[:PRODUCT_LIMIT]
    idx,           \* main: 1-based index of the product being processed
    visited,       \* main: indices whose iteration body has started, in order
    outcome        \* main: how the last finished iteration ended

vars == <<pc, all_products, merged, remerged, prod, years, next_data, pubs,
          om, ret, resp, pdf_url, path, calls, files, net, products, idx, visited, outcome>>

runVars == <<products, idx, visited, outcome>>
callVars == <<ret, resp, pdf_url, path, calls, files, net>>

(***************************************************************************)
(* Python values                                                           *)
(***************************************************************************)
PyNone == [t |-> "none"]
PyStr(s) == [t |-> "str", v |-> s]
PyInt(n) == [t |-> "int", v |-> n]
PyList(xs) == [t |-> "list", items |-> xs]
PyDict(kvs) == [t |-> "dict", items |-> kvs]

\* bool(x)
Truthy(x) ==
    CASE x.t = "none" -> FALSE
      [] x.t = "str"  -> x.v # <<>>
      [] x.t = "int"  -> x.v # 0
      [] OTHER        -> x.items # <<>>

\* a or b
PyOr(a, b) == IF Truthy(a) THEN a ELSE b

\* key in node
HasKey(node, k) == \E i \in 1..Len(node.items) : node.items[i].k = k

\* node.get(k)
Get(node, k) ==
    IF HasKey(node, k)
    THEN node.items[CHOOSE i \in 1..Len(node.items) : node.items[i].k = k].v
    ELSE PyNone

(***************************************************************************)
(* Characters: printable ASCII, code points 32..126.  The double quote,    *)
(* the backslash and the backtick are written out as words.                *)
(***************************************************************************)
Ascii ==
    <<" ", "!", "DQUOTE", "#", "$", "%", "&", "'", "(", ")", "*", "+", ",", "-",
      ".", "/", "0", "1", "2", "3", "4", "5", "6", "7", "8", "9", ":", ";",
      "<", "=", ">", "?", "@", "A", "B", "C", "D", "E", "F", "G", "H", "I",
      "J", "K", "L", "M", "N", "O", "P", "Q", "R", "S", "T", "U", "V", "W",
      "X", "Y", "Z", "[", "BACKSLASH", "]", "^", "_", "BACKTICK", "a", "b",
      "c", "d", "e", "f", "g", "h", "i", "j", "k", "l", "m", "n", "o", "p",
      "q", "r", "s", "t", "u", "v", "w", "x", "y", "z", "{", "|", "}", "~">>

\* ord(c), tabulated once
OrdTable == [c \in {Ascii[i] : i \in 1..Len(Ascii)} |->
                31 + (CHOOSE i \in 1..Len(Ascii) : Ascii[i] = c)]

Ord(c) == OrdTable[c]
Chr(n) == Ascii[n - 31]

IsDigitChar(c) == Ord(c) >= 48 /\ Ord(c) <= 57
IsUpperChar(c) == Ord(c) >= 65 /\ Ord(c) <= 90
IsLowerChar(c) == Ord(c) >= 97 /\ Ord(c) <= 122
IsAlnumChar(c) == IsDigitChar(c) \/ IsUpperChar(c) \/ IsLowerChar(c)

\* str.isdigit(): non-empty and every character a digit
IsDigit(s) == s # <<>> /\ \A i \in 1..Len(s) : IsDigitChar(s[i])

\* str.lower()
Lower(s) == [i \in 1..Len(s) |-> IF IsUpperChar(s[i]) THEN Chr(Ord(s[i]) + 32) ELSE s[i]]

\* str.startswith(prefix)
StartsWith(s, prefix) ==
    Len(s) >= Len(prefix) /\ SubSeq(s, 1, Len(prefix)) = prefix

\* s < t, as Python compares strings (by code point, a proper prefix first)
RECURSIVE StrLess(_, _)
StrLess(s, u) ==
    IF u = <<>> THEN FALSE
    ELSE IF s = <<>> THEN TRUE
    ELSE IF s[1] # u[1] THEN Ord(s[1]) < Ord(u[1])
    ELSE StrLess(Tail(s), Tail(u))

\* s.split("T", 1)[0] and s.split("T")[0]: the text before the first "T"
RECURSIVE BeforeT(_)
BeforeT(s) ==
    IF s = <<>> \/ s[1] = "T" THEN <<>> ELSE <<s[1]>> \o BeforeT(Tail(s))

\* int(s) of a digit string
RECURSIVE StrToInt(_)
StrToInt(s) ==
    IF s = <<>> THEN 0
    ELSE 10 * StrToInt(SubSeq(s, 1, Len(s) - 1)) + (Ord(s[Len(s)]) - 48)

\* str(n) of an int
RECURSIVE NatToStr(_)
NatToStr(n) ==
    IF n < 10 THEN <<Chr(48 + n)>> ELSE NatToStr(n \div 10) \o <<Chr(48 + (n % 10))>>

IntToStr(n) == IF n < 0 THEN <<"-">> \o NatToStr(0 - n) ELSE NatToStr(n)

\* str(x) of a value that is a str or an int
ToStr(x) == IF x.t = "int" THEN IntToStr(x.v) ELSE x.v

(***************************************************************************)
(* Dates: datetime.date as <<year, month, day>>, ordered as tuples         *)
(***************************************************************************)
\* date.min
DateMin == <<1, 1, 1>>

IsLeapYear(y) == (y % 4 = 0 /\ y % 100 # 0) \/ y % 400 = 0

DaysInMonth(y, m) ==
    IF m = 2 THEN (IF IsLeapYear(y) THEN 29 ELSE 28)
    ELSE IF m \in {4, 6, 9, 11} THEN 30 ELSE 31

\* Whether datetime.fromisoformat(s) accepts s: the form YYYY-MM-DD of a real date.
IsIsoDate(s) ==
    /\ Len(s) = 10
    /\ s[5] = "-" /\ s[8] = "-"
    /\ \A i \in {1, 2, 3, 4, 6, 7, 9, 10} : IsDigitChar(s[i])
    /\ LET y == StrToInt(SubSeq(s, 1, 4))
           m == StrToInt(SubSeq(s, 6, 7))
           d == StrToInt(SubSeq(s, 9, 10))
       IN  y >= 1 /\ m >= 1 /\ m <= 12 /\ d >= 1 /\ d <= DaysInMonth(y, m)

\* datetime.fromisoformat(s).date() of an accepted s
FromIsoFormat(s) ==
    <<StrToInt(SubSeq(s, 1, 4)), StrToInt(SubSeq(s, 6, 7)), StrToInt(SubSeq(s, 9, 10))>>

DateLess(a, b) ==
    \/ a[1] < b[1]
    \/ a[1] = b[1] /\ a[2] < b[2]
    \/ a[1] = b[1] /\ a[2] = b[2] /\ a[3] < b[3]

(***************************************************************************)
(* Merge (collapse) logic                                                  *)
(*                                                                         *)
(* A product is a record of the six fields the code reads with .get();     *)
(* PyNone stands for a missing key as well as for a JSON null.             *)
(***************************************************************************)
Product(brand, model, modelType, ngtdModelId, year, lineOffDate) ==
    [brand |-> brand, model |-> model, modelType |-> modelType,
     ngtdModelId |-> ngtdModelId, year |-> year, lineOffDate |-> lineOffDate]

\* _parse_iso_date(d): date.min when d is falsy, not a string or not a date
_parse_iso_date(d) ==
    IF ~Truthy(d) THEN DateMin
    ELSE IF d.t # "str" THEN DateMin
    ELSE IF IsIsoDate(BeforeT(d.v)) THEN FromIsoFormat(BeforeT(d.v))
    ELSE DateMin

\* y_raw is not None and str(y_raw).isdigit()
IsNumericYear(y_raw) == y_raw.t # "none" /\ IsDigit(ToStr(y_raw))

\* int(y_raw) of a numeric year
YearInt(y_raw) == IF y_raw.t = "int" THEN y_raw.v ELSE StrToInt(y_raw.v)

_rank_for_merge_YearOnly(p) ==
    <<DateMin, IF IsNumericYear(p.year) THEN YearInt(p.year) ELSE -1>>

\* _rank_for_merge(p): the pair (date, year)
_rank_for_merge(p) ==
    <<_parse_iso_date(p.lineOffDate),
      IF IsNumericYear(p.year) THEN YearInt(p.year) ELSE -1>>

\* a < b on (date, int) tuples
RankLess(a, b) == DateLess(a[1], b[1]) \/ (a[1] = b[1] /\ a[2] < b[2])

\* max(items, key=_rank_for_merge): the first item of maximal rank
RECURSIVE MaxFrom(_, _, _)
MaxFrom(items, i, best) ==
    IF i > Len(items) THEN best
    ELSE IF RankLess(_rank_for_merge(best), _rank_for_merge(items[i]))
         THEN MaxFrom(items, i + 1, items[i])
         ELSE MaxFrom(items, i + 1, best)

MaxByRank(items) == MaxFrom(items, 2, items[1])

\* the identity key (brand, model, modelType, ngtdModelId)
KeyOf(p) == <<p.brand, p.model, p.modelType, p.ngtdModelId>>

\* the keys of the groups dict, in insertion order (first occurrence)
RECURSIVE GroupKeys(_)
GroupKeys(L) ==
    IF L = <<>> THEN <<>>
    ELSE LET init == GroupKeys(SubSeq(L, 1, Len(L) - 1))
             k == KeyOf(L[Len(L)])
         IN  IF \E i \in 1..Len(init) : init[i] = k THEN init ELSE Append(init, k)

\* groups[key]: the products of L with that key, in list order
Group(L, k) == SelectSeq(L, LAMBDA p : KeyOf(p) = k)

merge_products_latest_Prepend(L) ==
    LET keys == GroupKeys(L)
    IN  [i \in 1..Len(keys) |-> MaxByRank(Group(L, keys[Len(keys) + 1 - i]))]

\* merge_products_latest(all_products)
merge_products_latest(L) ==
    LET keys == GroupKeys(L)
    IN  [i \in 1..Len(keys) |-> MaxByRank(Group(L, keys[i]))]

(***************************************************************************)
(* Years selection                                                         *)
(***************************************************************************)
USE_SIBLING_YEARS == TRUE

\* the default of years_for_same_product's cap parameter
YearCap == 12

\* sorted(S, reverse=True) of a set of ints
RECURSIVE SortedDesc(_)
SortedDesc(S) ==
    IF S = {} THEN <<>>
    ELSE LET m == CHOOSE x \in S : \A y \in S : y <= x
         IN  <<m>> \o SortedDesc(S \ {m})

\* xs[:n]
Take(xs, n) == SubSeq(xs, 1, IF Len(xs) < n THEN Len(xs) ELSE n)

\* the ints appended to years: int(y) of every sibling's numeric year
SiblingYears(p, L) ==
    {YearInt(L[i].year) : i \in {j \in 1..Len(L) :
        KeyOf(L[j]) = KeyOf(p) /\ IsNumericYear(L[j].year)}}

years_for_same_product_Unsorted(p, L) ==
    LET ys == SelectSeq(L, LAMBDA q : KeyOf(q) = KeyOf(p) /\ IsNumericYear(q.year))
        capped == Take(ys, YearCap)
    IN  [i \in 1..Len(capped) |-> IntToStr(YearInt(capped[i].year))]

\* years_for_same_product(prod, all_products)
years_for_same_product(p, L) ==
    LET ys == Take(SortedDesc(SiblingYears(p, L)), YearCap)
    IN  [i \in 1..Len(ys) |-> IntToStr(ys[i])]

\* year_from_prod(p)
year_from_prod(p) ==
    IF IsNumericYear(p.year) THEN <<IntToStr(YearInt(p.year))>> ELSE <<>>

\* pick_years_for_product(prod, all_products)
pick_years_for_product(p, L) ==
    IF USE_SIBLING_YEARS
    THEN (IF years_for_same_product(p, L) # <<>>
          THEN years_for_same_product(p, L) ELSE year_from_prod(p))
    ELSE year_from_prod(p)

(***************************************************************************)
(* Inputs: the values the bounded checks draw from                         *)
(***************************************************************************)
\* the texts of the sample catalogs, pages and answers
Sample ==
    [Toyota |-> PyStr(<<"T", "o", "y", "o", "t", "a">>),
     RAV4 |-> PyStr(<<"R", "A", "V", "4">>),
     XA50 |-> PyStr(<<"X", "A", "5", "0">>),
     NA |-> PyStr(<<"n", "/", "a">>),
     d2019_01_01 |-> PyStr(<<"2", "0", "1", "9", "-", "0", "1", "-", "0", "1">>),
     d2021_06_15 |-> PyStr(<<"2", "0", "2", "1", "-", "0", "6", "-", "1", "5">>),
     d2021_06_15T |-> PyStr(<<"2", "0", "2", "1", "-", "0", "6", "-", "1", "5",
                              "T", "0", "0", ":", "0", "0", ":", "0", "0">>),
     y2021 |-> PyStr(<<"2", "0", "2", "1">>),
     PartA |-> PyStr(<<"O", "M", "1", "2", "3", "4", "5">>),
     PartB |-> PyStr(<<"O", "M", "9", "9", "K", "/", "E">>),
     Old |-> PyStr(<<"O", "l", "d">>),
     New |-> PyStr(<<"N", "e", "w">>),
     SM |-> PyStr(<<"S", "M">>),
     OmLower |-> PyStr(<<"o", "m">>),
     EnGB |-> PyStr(<<"e", "n", "-", "G", "B">>),
     ENUpper |-> PyStr(<<"E", "N">>),
     Fr |-> PyStr(<<"f", "r">>),
     E |-> PyStr(<<"e">>),
     d2020_01_01 |-> PyStr(<<"2", "0", "2", "0", "-", "0", "1", "-", "0", "1">>),
     d2022_03_01 |-> PyStr(<<"2", "0", "2", "2", "-", "0", "3", "-", "0", "1">>),
     d2022_03_01T |-> PyStr(<<"2", "0", "2", "2", "-", "0", "3", "-", "0", "1",
                              "T", "1", "2", ":", "0", "0">>),
     d2023_01_01 |-> PyStr(<<"2", "0", "2", "3", "-", "0", "1", "-", "0", "1">>),
     TimeOnly |-> PyStr(<<"T", "1", "2", ":", "0", "0">>),
     Url |-> PyStr(<<"h", "t", "t", "p", "s", ":", "/", "/",
                     "c", "d", "n", "/", "a", ".", "p", "d", "f">>),
     ToyotaLexus |-> PyStr(<<"T", "o", "y", "o", "t", "a", "/", "L", "e", "x", "u", "s">>),
     y2024 |-> PyStr(<<"2", "0", "2", "4">>),
     y2022 |-> PyStr(<<"2", "0", "2", "2">>),
     y2023 |-> PyStr(<<"2", "0", "2", "3">>),
     HttpUrl |-> PyStr(<<"h", "t", "t", "p", ":", "/", "/", "c", "d", "n", "/", "a", ".", "p", "d", "f">>),
     UpperUrl |-> PyStr(<<"H", "T", "T", "P", "S", ":", "/", "/", "c", "d", "n", "/", "a", ".", "p", "d", "f">>),
     Slash |-> PyStr(<<"/">>),
     Toyota_Lexus |-> PyStr(<<"T", "o", "y", "o", "t", "a", "_", "L", "e", "x", "u", "s">>),
     Spaced |-> PyStr(<<" ", "R", "A", "V", " ", "4", " ">>)]

\* Two vehicles that differ only in the vendor model identifier.
IdentityKeys ==
    {<<Sample.Toyota, Sample.RAV4, Sample.XA50, PyInt(100)>>,
     <<Sample.Toyota, Sample.RAV4, Sample.XA50, PyInt(200)>>}

\* (lineOffDate, year) of the variants of a vehicle: dated, dated with a time part,
\* undated with the largest year, two with the same rank, unparsable and missing.
Variants ==
    {<<Sample.d2019_01_01, PyInt(2019)>>, <<Sample.d2021_06_15T, PyInt(2021)>>, <<PyNone, PyInt(2023)>>,
     <<Sample.d2021_06_15, Sample.y2021>>, <<Sample.NA, PyNone>>, <<Sample.d2021_06_15, Sample.NA>>}

\* the first vehicle in every variant, the second in the three that carry a year
ProductPool ==
    {Product(k[1], k[2], k[3], k[4], v[2], v[1]) :
        k \in {<<Sample.Toyota, Sample.RAV4, Sample.XA50, PyInt(100)>>}, v \in Variants}
    \cup {Product(k[1], k[2], k[3], k[4], v[2], v[1]) :
        k \in IdentityKeys, v \in {w \in Variants : w[2].t = "int"}}

\* the longest product list drawn exhaustively from the pool
MaxProducts == 3

ProductLists == UNION {[1..n -> ProductPool] : n \in 0..MaxProducts}

(***************************************************************************)
(* Values of the variables a specification does not use                    *)
(***************************************************************************)
NoRequests == [catalog |-> 0, page |-> 0, link |-> 0, download |-> 0]

NoCatalog == all_products = <<>> /\ merged = <<>> /\ remerged = <<>>
NoYears == prod = PyNone /\ years = <<>>
NoPage == next_data = PyNone /\ pubs = <<>> /\ om = PyNone
NoCall ==
    /\ ret = PyNone /\ resp = PyNone /\ pdf_url = PyNone /\ path = <<>>
    /\ calls = <<>>
    /\ files = {} /\ net = NoRequests
NoRun == products = <<>> /\ idx = 0 /\ visited = <<>> /\ outcome = "none"

(***************************************************************************)
(* SpecMerge: merge_products_latest applied to a product list, then to its *)
(* own result                                                              *)
(***************************************************************************)
InitMerge ==
    /\ pc = "merge_input"
    /\ all_products \in ProductLists
    /\ merged = <<>> /\ remerged = <<>>
    /\ NoYears /\ NoPage /\ NoCall /\ NoRun

MergeOnce ==
    /\ pc = "merge_input"
    /\ merged' = merge_products_latest(all_products)
    /\ pc' = "merged"
    /\ UNCHANGED <<all_products, remerged, prod, years, next_data, pubs, om, callVars,
                   runVars>>

MergeAgain ==
    /\ pc = "merged"
    /\ remerged' = merge_products_latest(merged)
    /\ pc' = "remerged"
    /\ UNCHANGED <<all_products, merged, prod, years, next_data, pubs, om, callVars,
                   runVars>>

NextMerge == MergeOnce \/ MergeAgain

SpecMerge == InitMerge /\ [][NextMerge]_vars

\* C1: merging an already merged list returns the same list, the same products in
\* the same order: merge(merge(L)) = merge(L).
C1_MergeIdempotent == pc = "remerged" => remerged = merged

\* A list of three products in two groups was collapsed to two and merged again.
C1_Witness ==
    pc = "remerged" /\ Len(all_products) = 3 /\ Len(merged) = 2
    /\ merged[1] # all_products[1]

\* C2: for every identity key of L the merged list holds exactly one product with
\* that key; it is a product of L, and no product of its group ranks above it, the
\* line-off date compared first and the year only between equal dates, where a
\* missing or unparsable date counts as date.min and a missing or non-numeric year
\* as -1.
C2_MergeKeepsLatest ==
    pc \in {"merged", "remerged"} =>
        LET dateRank(p) ==
                IF p.lineOffDate.t = "str" /\ IsIsoDate(BeforeT(p.lineOffDate.v))
                THEN FromIsoFormat(BeforeT(p.lineOffDate.v)) ELSE DateMin
            yearRank(p) ==
                IF p.year.t = "int" /\ p.year.v >= 0 THEN p.year.v
                ELSE IF p.year.t = "str" /\ IsDigit(p.year.v) THEN StrToInt(p.year.v)
                ELSE -1
            atLeast(p, q) ==
                \/ DateLess(dateRank(q), dateRank(p))
                \/ dateRank(q) = dateRank(p) /\ yearRank(q) <= yearRank(p)
        IN  \A i \in 1..Len(all_products) :
                LET reps == {j \in 1..Len(merged) : KeyOf(merged[j]) = KeyOf(all_products[i])}
                IN  /\ Cardinality(reps) = 1
                    /\ \A j \in reps :
                        /\ \E m \in 1..Len(all_products) : all_products[m] = merged[j]
                        /\ \A n \in 1..Len(all_products) :
                               KeyOf(all_products[n]) = KeyOf(merged[j])
                                   => atLeast(merged[j], all_products[n])

\* The group with dates 2019-01-01, 2021-06-15 and none and years 2019, 2021 and 2023
\* was merged to its 2021-06-15 product: the date dominates the year.
C2_Witness ==
    /\ pc = "merged"
    /\ Len(all_products) = 3 /\ Len(merged) = 1
    /\ KeyOf(all_products[1]) = KeyOf(all_products[2])
    /\ <<all_products[1].lineOffDate, all_products[1].year>> = <<Sample.d2019_01_01, PyInt(2019)>>
    /\ <<all_products[2].lineOffDate, all_products[2].year>> = <<Sample.d2021_06_15T, PyInt(2021)>>
    /\ <<all_products[3].lineOffDate, all_products[3].year>> = <<PyNone, PyInt(2023)>>
    /\ merged[1] = all_products[2]

(***************************************************************************)
(* SpecYears: the year resolver applied to a product and a pre-merge list  *)
(***************************************************************************)
\* the longest catalog of one vehicle's variants
MaxSiblings == 16

\* A catalog of n variants whose years run through `span` values in the order
\* `step` gives, as ints and as digit strings, with a non-numeric and a missing
\* year among them, and every `other`-th variant belonging to the second vehicle.
LongCatalog(n, step, span, other) ==
    [i \in 1..n |->
        LET y == 2000 + ((i * step) % span)
            k == IF other > 0 /\ i % other = 0
                 THEN <<Sample.Toyota, Sample.RAV4, Sample.XA50, PyInt(200)>>
                 ELSE <<Sample.Toyota, Sample.RAV4, Sample.XA50, PyInt(100)>>
            year == IF i = 7 THEN Sample.NA
                    ELSE IF i = 11 THEN PyNone
                    ELSE IF i % 3 = 0 THEN PyStr(IntToStr(y)) ELSE PyInt(y)
        IN  Product(k[1], k[2], k[3], k[4], year, PyNone)]

LongCatalogs ==
    {LongCatalog(n, step, span, other) :
        n \in 0..MaxSiblings, step \in {1, 3, 5}, span \in {3, 14, 15}, other \in {0, 4}}

ShortLists == UNION {[1..n -> ProductPool] : n \in 0..(MaxProducts - 1)}

\* The products the resolver is asked about: one of each vehicle, and one of neither.
ProbeProducts ==
    {Product(Sample.Toyota, Sample.RAV4, Sample.XA50, PyInt(100), PyInt(1999), PyNone),
     Product(Sample.Toyota, Sample.RAV4, Sample.XA50, PyInt(200), PyNone, Sample.d2019_01_01),
     Product(Sample.Toyota, Sample.RAV4, PyNone, PyInt(100), Sample.y2021, PyNone)}

InitYears ==
    /\ pc = "years_input"
    /\ all_products \in ShortLists \cup LongCatalogs
    /\ prod \in ProbeProducts
    /\ years = <<>>
    /\ merged = <<>> /\ remerged = <<>>
    /\ NoPage /\ NoCall /\ NoRun

ResolveYears ==
    /\ pc = "years_input"
    /\ years' = years_for_same_product(prod, all_products)
    /\ pc' = "years_resolved"
    /\ UNCHANGED <<all_products, merged, remerged, prod, next_data, pubs, om, callVars,
                   runVars>>

PickYears ==
    /\ pc = "years_input"
    /\ years' = pick_years_for_product(prod, all_products)
    /\ pc' = "years_picked"
    /\ UNCHANGED <<all_products, merged, remerged, prod, next_data, pubs, om, callVars,
                   runVars>>

NextYears == ResolveYears \/ PickYears

SpecYears == InitYears /\ [][NextYears]_vars

\* C3: years_for_same_product(p, L) returns the numeric years of the products of L
\* that share p's identity key, as decimal strings in strictly descending numeric
\* order (so without duplicates), at most 12 of them, the 12 largest when there are
\* more.
C3_YearsDescendingCapped ==
    pc = "years_resolved" =>
        LET numeric(y) ==
                \/ y.t = "int" /\ y.v >= 0
                \/ y.t = "str" /\ IsDigit(y.v)
            value(y) == IF y.t = "int" THEN y.v ELSE StrToInt(y.v)
            sib == {value(all_products[i].year) : i \in {j \in 1..Len(all_products) :
                        KeyOf(all_products[j]) = KeyOf(prod)
                        /\ numeric(all_products[j].year)}}
        IN  /\ Len(years) <= 12
            /\ \A i \in 1..Len(years) :
                   /\ IsDigit(years[i])
                   /\ StrToInt(years[i]) \in sib
                   /\ years[i] = IntToStr(StrToInt(years[i]))
            /\ \A i, j \in 1..Len(years) :
                   i < j => StrToInt(years[i]) > StrToInt(years[j])
            /\ \A y \in sib :
                   \/ \E i \in 1..Len(years) : StrToInt(years[i]) = y
                   \/ Len(years) = 12 /\ \A i \in 1..Len(years) : StrToInt(years[i]) > y

\* More than 12 distinct sibling years, some repeated in the list: 12 were returned.
C3_Witness ==
    /\ pc = "years_resolved"
    /\ Len(years) = 12
    /\ Cardinality(SiblingYears(prod, all_products)) > 12
    /\ \E i, j \in 1..Len(all_products) :
           /\ i < j
           /\ KeyOf(all_products[i]) = KeyOf(prod)
           /\ all_products[i] = all_products[j]

(***************************************************************************)
(* Publications page parsing                                               *)
(***************************************************************************)
\* An exception raised instead of a return value.
Raised(what) == [t |-> "raised", what |-> what]

\* the record collect_publications builds from an object with a partNumber key
PublicationOf(node) ==
    [partNumber      |-> Get(node, "partNumber"),
     publicationType |-> PyOr(Get(node, "publicationType"),
                              PyOr(Get(node, "type"), Get(node, "category"))),
     language        |-> PyOr(Get(node, "language"),
                              PyOr(Get(node, "lang"), Get(node, "locale"))),
     title           |-> PyOr(Get(node, "title"), PyOr(Get(node, "name"), Get(node, "label"))),
     lineOffDate     |-> PyOr(Get(node, "lineOffDate"),
                              PyOr(Get(node, "effectiveDate"), PyStr(<<>>))),
     modelType       |-> PyOr(Get(node, "modelType"), PyOr(Get(node, "model"), PyStr(<<>>))),
     ngtdModelId     |-> PyOr(Get(node, "ngtdModelId"),
                              PyOr(Get(node, "modelId"), PyStr(<<>>))),
     year            |-> Get(node, "year")]

\* visit(node): the records appended to found, in the order of the walk
RECURSIVE Visit(_), VisitEach(_)
Visit(node) ==
    IF node.t = "dict"
    THEN (IF HasKey(node, "partNumber") THEN <<PublicationOf(node)>> ELSE <<>>)
         \o VisitEach([i \in 1..Len(node.items) |-> node.items[i].v])
    ELSE IF node.t = "list" THEN VisitEach(node.items)
    ELSE <<>>

VisitEach(nodes) ==
    IF nodes = <<>> THEN <<>> ELSE Visit(Head(nodes)) \o VisitEach(Tail(nodes))

\* the keys of uniq, in insertion order: the truthy part numbers, first occurrences
RECURSIVE UniqKeys(_)
UniqKeys(found) ==
    IF found = <<>> THEN <<>>
    ELSE LET init == UniqKeys(SubSeq(found, 1, Len(found) - 1))
             pn == found[Len(found)].partNumber
         IN  IF ~Truthy(pn) \/ \E i \in 1..Len(init) : init[i] = pn
             THEN init ELSE Append(init, pn)

UniqValue_FirstWins(found, pn) ==
    found[CHOOSE i \in 1..Len(found) :
            /\ found[i].partNumber = pn
            /\ \A j \in 1..(i - 1) : found[j].partNumber # pn]

\* uniq[pn] after the loop: the last record assigned under pn
UniqValue(found, pn) ==
    found[CHOOSE i \in 1..Len(found) :
            /\ found[i].partNumber = pn
            /\ \A j \in (i + 1)..Len(found) : found[j].partNumber # pn]

\* uniq[pn] = x raises TypeError when pn is a dict or a list (unhashable)
collect_publications_raises(nd) ==
    \E i \in 1..Len(Visit(nd)) :
        Truthy(Visit(nd)[i].partNumber) /\ Visit(nd)[i].partNumber.t \in {"dict", "list"}

\* collect_publications(next_data), when it returns
collect_publications(nd) ==
    LET found == Visit(nd)
        keys == UniqKeys(found)
    IN  [i \in 1..Len(keys) |-> UniqValue(found, keys[i])]

(***************************************************************************)
(* Owner's-Manual selection                                                *)
(***************************************************************************)
sOM == PyStr(<<"O", "M">>)
sEnPrefix == <<"e", "n">>

\* norm_date(p.get("lineOffDate") or "") of a date that is a str or falsy
NormDate(d) == BeforeT(PyOr(d, PyStr(<<>>)).v)

\* the filter of pick_latest_en_om
IsEnglishOM(p) ==
    /\ p.publicationType = sOM
    /\ p.language.t = "str"
    /\ StartsWith(Lower(p.language.v), sEnPrefix)

\* oms.sort(key=..., reverse=True); oms[0]: the sort is stable, so the first of
\* the candidates with the greatest key
RECURSIVE LatestFrom(_, _, _)
LatestFrom(oms, i, best) ==
    IF i > Len(oms) THEN best
    ELSE IF StrLess(NormDate(best.lineOffDate), NormDate(oms[i].lineOffDate))
         THEN LatestFrom(oms, i + 1, oms[i])
         ELSE LatestFrom(oms, i + 1, best)

\* without the check of an empty candidate list, oms[0] raises
pick_latest_en_om_raises_NoEmptyCheck(ps) ==
    \/ \E i \in 1..Len(ps) :
        IsEnglishOM(ps[i]) /\ Truthy(ps[i].lineOffDate) /\ ps[i].lineOffDate.t # "str"
    \/ ~\E i \in 1..Len(ps) : IsEnglishOM(ps[i])

\* norm_date raises AttributeError on a truthy lineOffDate that is not a str
pick_latest_en_om_raises(ps) ==
    \E i \in 1..Len(ps) :
        IsEnglishOM(ps[i]) /\ Truthy(ps[i].lineOffDate) /\ ps[i].lineOffDate.t # "str"

pick_latest_en_om_Oldest(ps) ==
    LET oms == SelectSeq(ps, IsEnglishOM)
    IN  IF oms = <<>> THEN PyNone
        ELSE CHOOSE p \in {oms[i] : i \in 1..Len(oms)} :
                \A j \in 1..Len(oms) :
                    ~StrLess(NormDate(oms[j].lineOffDate), NormDate(p.lineOffDate))

\* pick_latest_en_om(pubs), when it returns
pick_latest_en_om(ps) ==
    LET oms == SelectSeq(ps, IsEnglishOM)
    IN  IF oms = <<>> THEN PyNone ELSE LatestFrom(oms, 2, oms[1])

(***************************************************************************)
(* SpecCollect: collect_publications applied to a hydration payload        *)
(***************************************************************************)

\* a JSON object with a partNumber key and a title under one of its names
TitledNode(pn, titleKey, title) ==
    PyDict(<<[k |-> "partNumber", v |-> pn], [k |-> titleKey, v |-> title]>>)

\* Objects of a payload: two part numbers under two titles, a title under its
\* alternate name, an empty and a null part number, and an object without a part
\* number that holds one with.
NodePool ==
    {TitledNode(pn, "title", title) : pn \in {Sample.PartA, Sample.PartB}, title \in {Sample.Old, Sample.New}}
    \cup {TitledNode(Sample.PartA, "name", Sample.New),
          TitledNode(PyStr(<<>>), "title", Sample.Old),
          TitledNode(PyNone, "title", Sample.New),
          PyDict(<<[k |-> "items", v |-> PyList(<<TitledNode(Sample.PartB, "label", Sample.Old)>>)]>>)}

\* the most objects in a payload
MaxNodes == 3

\* the objects side by side in a list under props.pageProps.publications
FlatPayload(nodes) ==
    LET pageProps == PyDict(<<[k |-> "publications", v |-> PyList(nodes)]>>)
        props == PyDict(<<[k |-> "pageProps", v |-> pageProps]>>)
    IN  PyDict(<<[k |-> "props", v |-> props], [k |-> "page", v |-> PyStr(<<"/", "p">>)]>>)

\* the first object holding the others under a key of its own
NestedPayload(nodes) ==
    PyDict(<<[k |-> "props", v |->
        PyDict(Head(nodes).items \o <<[k |-> "related", v |-> PyList(Tail(nodes))]>>)]>>)

Payloads ==
    UNION {{FlatPayload(ns) : ns \in [1..n -> NodePool]} : n \in 0..MaxNodes}
    \cup UNION {{NestedPayload(ns) : ns \in [1..n -> NodePool]} : n \in 1..MaxNodes}

InitCollect ==
    /\ pc = "collect_input"
    /\ next_data \in Payloads
    /\ pubs = <<>> /\ om = PyNone
    /\ NoCatalog /\ NoYears /\ NoCall /\ NoRun

Collect ==
    /\ pc = "collect_input"
    /\ IF collect_publications_raises(next_data)
       THEN pubs' = pubs /\ ret' = Raised("TypeError")
       ELSE pubs' = collect_publications(next_data) /\ ret' = ret
    /\ pc' = "collected"
    /\ UNCHANGED <<all_products, merged, remerged, prod, years, next_data, om, resp,
                   pdf_url, path, calls, files, net, runVars>>

NextCollect == Collect

SpecCollect == InitCollect /\ [][NextCollect]_vars

\* C4: the result holds at most one record per part number, and the record kept for
\* a part number is the one built from the last object of the walk that carries it.
C4_LastOccurrenceWins ==
    (pc = "collected" /\ ret = PyNone) =>
        LET found == Visit(next_data)
        IN  /\ \A i, j \in 1..Len(pubs) :
                   pubs[i].partNumber = pubs[j].partNumber => i = j
            /\ \A i \in 1..Len(pubs) :
                   \E k \in 1..Len(found) :
                       /\ found[k] = pubs[i]
                       /\ \A m \in (k + 1)..Len(found) :
                              found[m].partNumber # pubs[i].partNumber
            /\ \A k \in 1..Len(found) :
                   Truthy(found[k].partNumber) =>
                       \E i \in 1..Len(pubs) : pubs[i].partNumber = found[k].partNumber

\* Two objects with the same part number and different titles were walked, and
\* only the title of the second is in the result.
C4_Witness ==
    /\ pc = "collected"
    /\ Len(Visit(next_data)) = 2
    /\ Visit(next_data)[1].partNumber = Visit(next_data)[2].partNumber
    /\ Visit(next_data)[1].title = Sample.Old /\ Visit(next_data)[2].title = Sample.New
    /\ Len(pubs) = 1 /\ pubs[1].title = Sample.New

(***************************************************************************)
(* SpecPick: pick_latest_en_om applied to a Publication list               *)
(***************************************************************************)
Publication(pn, type, lang, date, modelType) ==
    [partNumber |-> pn, publicationType |-> type, language |-> lang, title |-> Sample.New,
     lineOffDate |-> date, modelType |-> modelType, ngtdModelId |-> PyStr(<<>>),
     year |-> PyNone]

\* Publications: English Owner's Manuals of three dates (two of them the same day,
\* one with a time part), one undated and one with a null date, and entries just
\* outside the filter: another type, the type in lower case, another language, a
\* language that is a proper prefix of "en", and no language.
PubPool ==
    {Publication(Sample.PartA, sOM, Sample.EnGB, Sample.d2020_01_01, Sample.XA50),
     Publication(Sample.PartB, sOM, Sample.EnGB, Sample.d2022_03_01T, Sample.XA50),
     Publication(Sample.PartA, sOM, Sample.ENUpper, Sample.d2022_03_01, PyStr(<<>>)),
     Publication(Sample.PartB, sOM, Sample.EnGB, PyStr(<<>>), Sample.XA50),
     Publication(Sample.PartA, sOM, Sample.EnGB, PyNone, Sample.XA50),
     Publication(Sample.PartA, Sample.SM, Sample.EnGB, Sample.d2023_01_01, Sample.XA50),
     Publication(Sample.PartB, Sample.OmLower, Sample.EnGB, Sample.d2023_01_01, Sample.XA50),
     Publication(Sample.PartA, sOM, Sample.Fr, Sample.d2023_01_01, Sample.XA50),
     Publication(Sample.PartB, sOM, Sample.E, Sample.d2023_01_01, Sample.XA50),
     Publication(Sample.PartA, sOM, PyNone, Sample.d2023_01_01, Sample.XA50)}

\* the longest Publication list
MaxPubs == 3

PubLists == UNION {[1..n -> PubPool] : n \in 0..MaxPubs}

InitPick ==
    /\ pc = "pick_input"
    /\ pubs \in PubLists
    /\ next_data = PyNone /\ om = PyNone
    /\ NoCatalog /\ NoYears /\ NoCall /\ NoRun

Pick ==
    /\ pc = "pick_input"
    /\ IF pick_latest_en_om_raises(pubs)
       THEN om' = om /\ ret' = Raised("AttributeError")
       ELSE om' = pick_latest_en_om(pubs) /\ ret' = ret
    /\ pc' = "picked"
    /\ UNCHANGED <<all_products, merged, remerged, prod, years, next_data, pubs, resp,
                   pdf_url, path, calls, files, net, runVars>>

NextPick == Pick

SpecPick == InitPick /\ [][NextPick]_vars

\* C5: the candidates are exactly the entries whose publicationType equals "OM" and
\* whose language is a string that starts with "en" in any letter case; without a
\* candidate no manual is returned, and otherwise the result is a candidate whose
\* date portion of lineOffDate is not less than that of any candidate.
C5_LatestEnglishOM ==
    (pc = "picked" /\ ret = PyNone) =>
        LET datePart(p) == IF p.lineOffDate.t = "str" THEN BeforeT(p.lineOffDate.v) ELSE <<>>
            cand == {i \in 1..Len(pubs) :
                        /\ pubs[i].publicationType = PyStr(<<"O", "M">>)
                        /\ pubs[i].language.t = "str"
                        /\ Len(pubs[i].language.v) >= 2
                        /\ pubs[i].language.v[1] \in {"e", "E"}
                        /\ pubs[i].language.v[2] \in {"n", "N"}}
        IN  /\ cand = {} => om = PyNone
            /\ cand # {} =>
                   /\ \E i \in cand : pubs[i] = om
                   /\ \A j \in cand :
                          ~StrLess(datePart(om), datePart(pubs[j]))

\* English Owner's Manuals of 2020-01-01 and 2022-03-01 and an entry of a later date
\* outside the filter: the 2022 manual was selected.
C5_Witness ==
    /\ pc = "picked"
    /\ Len(pubs) = 3
    /\ pubs[1] = Publication(Sample.PartA, sOM, Sample.EnGB, Sample.d2020_01_01, Sample.XA50)
    /\ pubs[2] = Publication(Sample.PartA, sOM, Sample.Fr, Sample.d2023_01_01, Sample.XA50)
    /\ pubs[3] = Publication(Sample.PartB, sOM, Sample.EnGB, Sample.d2022_03_01T, Sample.XA50)
    /\ om = pubs[3]

(***************************************************************************)
(* The network, as the caller of session.get / session.send sees it: a     *)
(* response with a status and a body, or an exception of the HTTP layer.   *)
(***************************************************************************)
\* status_forcelist: a response with one of these never reaches the caller; once
\* the retries are used up the adapter raises RetryError
StatusForcelist == {429, 502, 503, 504}

Response(status, body) == [t |-> "response", status |-> status, body |-> body]

\* a body that json() cannot parse
NotJson == [t |-> "notjson"]

\* what session.send / session.get hands to its caller for what the server sent
Delivered(r) ==
    IF r.t = "response" /\ r.status \in StatusForcelist THEN Raised("RetryError") ELSE r

\* r.raise_for_status() raises: a 4xx or 5xx status
IsErrorStatus(status) == status >= 400 /\ status < 600

CountRequest(n, endpoint) == [n EXCEPT ![endpoint] = @ + 1]

(***************************************************************************)
(* PDF link resolution                                                     *)
(***************************************************************************)
\* the statuses get_pdf_link answers with "no link"
SoftStatuses == {400, 404, 500}

\* line_off = (pub.get("lineOffDate") or "").split("T")[0]
LinkLineOff(pub) == NormDate(pub.lineOffDate)

get_pdf_link_ready_RawDate(pub) ==
    Truthy(pub.partNumber) /\ Truthy(pub.modelType) /\ Truthy(pub.lineOffDate)

\* pn and model_type and line_off: the request is prepared and sent
get_pdf_link_ready(pub) ==
    Truthy(pub.partNumber) /\ Truthy(pub.modelType) /\ LinkLineOff(pub) # <<>>

get_pdf_link_result_NoSoft500(r) ==
    IF r.t = "raised" THEN r
    ELSE IF r.status \in {400, 404} THEN PyNone
    ELSE IF IsErrorStatus(r.status) THEN Raised("HTTPError")
    ELSE IF r.body = NotJson THEN Raised("JSONDecodeError")
    ELSE IF r.body.t # "dict" THEN Raised("AttributeError")
    ELSE Get(r.body, "url")

\* get_pdf_link from session.send on: the value returned or the error raised
get_pdf_link_result(r) ==
    IF r.t = "raised" THEN r
    ELSE IF r.status \in SoftStatuses THEN PyNone
    ELSE IF IsErrorStatus(r.status) THEN Raised("HTTPError")
    ELSE IF r.body = NotJson THEN Raised("JSONDecodeError")
    ELSE IF r.body.t # "dict" THEN Raised("AttributeError")
    ELSE Get(r.body, "url")

(***************************************************************************)
(* SpecLink: get_pdf_link called with a publication                        *)
(***************************************************************************)

\* Publications with each of the three fields present, empty or missing; a line-off
\* date with a time part, and one that is only a time part.
LinkPubs ==
    {Publication(pn, sOM, Sample.EnGB, date, mt) :
        pn \in {Sample.PartA, PyStr(<<>>), PyNone},
        mt \in {Sample.XA50, PyStr(<<>>), PyNone},
        date \in {Sample.d2022_03_01, Sample.d2022_03_01T, Sample.TimeOnly, PyStr(<<>>), PyNone}}

LinkStatuses == {200, 204, 304, 400, 401, 404, 500, 503}

LinkBodies ==
    {PyDict(<<[k |-> "url", v |-> Sample.Url]>>),
     PyDict(<<[k |-> "error", v |-> Sample.NA]>>),
     PyDict(<<[k |-> "url", v |-> PyNone]>>),
     PyList(<<>>),
     NotJson}

LinkResponses ==
    {Response(st, b) : st \in LinkStatuses, b \in LinkBodies} \cup {Raised("ConnectionError")}

InitLink ==
    /\ pc = "link_input"
    /\ om \in LinkPubs
    /\ next_data = PyNone /\ pubs = <<>>
    /\ NoCatalog /\ NoYears /\ NoCall /\ NoRun

\* get_pdf_link up to session.send
LinkCall ==
    /\ pc = "link_input"
    /\ IF get_pdf_link_ready(om)
       THEN /\ net' = CountRequest(net, "link")
            /\ ret' = ret
            /\ pc' = "link_sent"
       ELSE /\ net' = net
            /\ ret' = PyNone
            /\ pc' = "link_returned"
    /\ UNCHANGED <<all_products, merged, remerged, prod, years, next_data, pubs, om,
                   resp, pdf_url, path, calls, files, runVars>>

\* get_pdf_link from the response on
LinkRespond ==
    /\ pc = "link_sent"
    /\ \E r \in LinkResponses :
        /\ resp' = r
        /\ ret' = get_pdf_link_result(Delivered(r))
    /\ pc' = IF ret'.t = "raised" THEN "link_raised" ELSE "link_returned"
    /\ UNCHANGED <<all_products, merged, remerged, prod, years, next_data, pubs, om,
                   pdf_url, path, calls, files, net, runVars>>

NextLink == LinkCall \/ LinkRespond

SpecLink == InitLink /\ [][NextLink]_vars

\* C6: a request goes to the PDF-link endpoint only when partNumber, modelType and
\* the date-only lineOffDate are all present and non-empty; when one of them is
\* missing or empty the call returns no link, sends nothing and does not raise.
C6_RequestOnlyWhenComplete ==
    LET present(x) == x.t = "str" /\ x.v # <<>>
        dateOnly == IF om.lineOffDate.t = "str" THEN BeforeT(om.lineOffDate.v) ELSE <<>>
        complete == present(om.partNumber) /\ present(om.modelType) /\ dateOnly # <<>>
    IN  /\ net.link > 0 => complete
        /\ (~complete /\ pc # "link_input") =>
               pc = "link_returned" /\ ret = PyNone /\ net = NoRequests

\* A publication whose lineOffDate is not empty but has an empty date part was
\* answered with no link and without a request.
C6_Witness ==
    /\ pc = "link_returned"
    /\ om.partNumber = Sample.PartA /\ om.modelType = Sample.XA50 /\ om.lineOffDate = Sample.TimeOnly
    /\ ret = PyNone /\ net.link = 0

OUT_DIR == <<".", "/", "m", "a", "n", "u", "a", "l", "s">>

\* the length safe_filename cuts to
SafeNameLength == 200

sManual == <<"m", "a", "n", "u", "a", "l">>

\* s.strip("_ ")
RECURSIVE StripLeft(_), StripRight(_)
StripLeft(s) ==
    IF s # <<>> /\ s[1] \in {"_", " "} THEN StripLeft(Tail(s)) ELSE s

StripRight(s) ==
    IF s # <<>> /\ s[Len(s)] \in {"_", " "} THEN StripRight(SubSeq(s, 1, Len(s) - 1)) ELSE s

\* safe_filename(s) of a str
safe_filename(s) ==
    LET cleaned == [i \in 1..Len(s) |->
                       IF IsAlnumChar(s[i]) \/ s[i] \in {".", "_", "-", " "}
                       THEN s[i] ELSE "_"]
        cut == Take(StripRight(StripLeft(cleaned)), SafeNameLength)
    IN  IF cut # <<>> THEN cut ELSE sManual

\* preferred_year(pub, prod): a str, or PyNone
preferred_year(pub, p) ==
    IF IsNumericYear(pub.year) THEN PyStr(IntToStr(YearInt(pub.year)))
    ELSE IF IsNumericYear(p.year) THEN PyStr(IntToStr(YearInt(p.year)))
    ELSE LET line_off == PyOr(pub.lineOffDate, PyStr(<<>>)).v
         IN  IF Len(line_off) >= 4 /\ IsDigit(SubSeq(line_off, 1, 4))
             THEN PyStr(SubSeq(line_off, 1, 4)) ELSE PyNone

\* ".".join(segments)
RECURSIVE JoinDots(_)
JoinDots(segments) ==
    IF Len(segments) = 1 THEN segments[1]
    ELSE segments[1] \o <<".">> \o JoinDots(Tail(segments))

\* without base.replace(' ', '_')
make_named_pdf_KeepSpaces(brand, model, model_type, year, part_number) ==
    LET given == SelectSeq(<<brand, model, model_type, year, part_number>>,
                           LAMBDA x : Truthy(x) /\ safe_filename(x.v) # <<>>)
        segments == [i \in 1..Len(given) |-> safe_filename(given[i].v)]
    IN  (IF segments # <<>> THEN JoinDots(segments) ELSE sManual) \o <<".", "p", "d", "f">>

\* make_named_pdf(brand, model, model_type, year, part_number)
make_named_pdf(brand, model, model_type, year, part_number) ==
    LET given == SelectSeq(<<brand, model, model_type, year, part_number>>,
                           LAMBDA x : Truthy(x) /\ safe_filename(x.v) # <<>>)
        segments == [i \in 1..Len(given) |-> safe_filename(given[i].v)]
        base == IF segments # <<>> THEN JoinDots(segments) ELSE sManual
    IN  [i \in 1..Len(base) |-> IF base[i] = " " THEN "_" ELSE base[i]]
        \o <<".", "p", "d", "f">>

\* path = os.path.join(OUT_DIR, name) of download_pdf(url, prod, pub)
TargetPath(p, pub) ==
    OUT_DIR \o <<"/">> \o
    make_named_pdf(PyOr(p.brand, PyStr(<<>>)),
                   PyOr(p.model, PyStr(<<>>)),
                   PyOr(pub.modelType, PyOr(p.modelType, PyOr(p.model, PyStr(<<>>)))),
                   preferred_year(pub, p),
                   PyOr(pub.partNumber, PyStr(<<>>)))

(***************************************************************************)
(* The output directory: a set of files, one per path.  A file remembers   *)
(* the URL its bytes came from, how many chunks of the body were written   *)
(* and how many the body has.                                              *)
(***************************************************************************)
Exists(fs, target) == \E f \in fs : f.path = target

FileAt(fs, target) == CHOOSE f \in fs : f.path = target

\* open(path, "wb"): the file is created, or cut to nothing
Opened(fs, target, url, size) ==
    {f \in fs : f.path # target}
        \cup {[path |-> target, from |-> url, written |-> 0, size |-> size]}

\* f.write(chunk)
ChunkWritten(fs, target) ==
    {f \in fs : f.path # target}
        \cup {[FileAt(fs, target) EXCEPT !.written = @ + 1]}

download_pdf_skips_Never(fs, p, pub) == FALSE

\* skipping only when the file at the path holds its whole body
download_pdf_skips_CompleteOnly(fs, p, pub) ==
    /\ Exists(fs, TargetPath(p, pub))
    /\ FileAt(fs, TargetPath(p, pub)).written = FileAt(fs, TargetPath(p, pub)).size

\* os.path.exists(path): download_pdf returns the path without a request
download_pdf_skips(fs, p, pub) == Exists(fs, TargetPath(p, pub))

(***************************************************************************)
(* SpecDownload: download_pdf called again and again with the same url,    *)
(* product and publication, into a directory that starts empty             *)
(***************************************************************************)

DownloadProducts ==
    {Product(Sample.ToyotaLexus, Sample.RAV4, Sample.XA50, PyInt(100), Sample.y2024, Sample.d2021_06_15),
     Product(Sample.Toyota, PyStr(<<"L", "a", "n", "d", " ", "C", "r", "u", "i", "s", "e", "r">>),
             PyNone, PyInt(200), PyNone, PyNone),
     Product(PyNone, PyNone, PyNone, PyNone, PyNone, PyNone)}

DownloadPubs ==
    {Publication(Sample.PartA, sOM, Sample.EnGB, Sample.d2022_03_01T, Sample.XA50),
     Publication(Sample.PartB, sOM, Sample.EnGB, Sample.d2020_01_01, PyStr(<<>>)),
     Publication(PyNone, sOM, Sample.EnGB, PyNone, PyNone)}

\* the most calls of download_pdf in a row
MaxCalls == 2

\* the most chunks in a response body
MaxChunks == 2

\* what the server of the PDF answers: a status and a body of so many chunks
DownloadStatuses == {200, 404, 503}

DownloadResponses ==
    {Response(st, n) : st \in DownloadStatuses, n \in 0..MaxChunks}
        \cup {Raised("ConnectionError")}

\* how a finished call is remembered: what it returned or raised, how many requests
\* it sent, and the file at its target path when it ended
CallRecord(r, sent, fs, target) ==
    [ret |-> r, sent |-> sent,
     file |-> IF Exists(fs, target) THEN FileAt(fs, target) ELSE PyNone]

InitDownload ==
    /\ pc = "download_input"
    /\ prod \in DownloadProducts
    /\ om \in DownloadPubs
    /\ pdf_url = Sample.Url /\ path = <<>>
    /\ ret = PyNone /\ resp = PyNone /\ calls = <<>> /\ files = {} /\ net = NoRequests
    /\ years = <<>> /\ next_data = PyNone /\ pubs = <<>>
    /\ NoCatalog /\ NoRun

\* download_pdf up to session.get
DownloadCall ==
    /\ pc = "download_input"
    /\ Len(calls) < MaxCalls
    /\ IF download_pdf_skips(files, prod, om)
       THEN /\ ret' = PyStr(TargetPath(prod, om))
            /\ calls' = Append(calls, CallRecord(ret', 0, files, TargetPath(prod, om)))
            /\ net' = net
            /\ pc' = "download_input"
       ELSE /\ ret' = PyNone
            /\ calls' = calls
            /\ net' = CountRequest(net, "download")
            /\ pc' = "download_sent"
    /\ UNCHANGED <<all_products, merged, remerged, prod, years, next_data, pubs, om,
                   resp, pdf_url, path, files, runVars>>

\* download_pdf from the response to open(path, "wb")
DownloadRespond ==
    /\ pc = "download_sent"
    /\ \E r \in DownloadResponses :
        /\ resp' = r
        /\ IF Delivered(r).t = "raised" \/ IsErrorStatus(r.status)
           THEN /\ ret' = IF Delivered(r).t = "raised" THEN Delivered(r) ELSE Raised("HTTPError")
                /\ calls' = Append(calls, CallRecord(ret', 1, files, TargetPath(prod, om)))
                /\ files' = files
                /\ pc' = "download_input"
           ELSE /\ ret' = ret
                /\ calls' = calls
                /\ files' = Opened(files, TargetPath(prod, om), pdf_url, r.body)
                /\ pc' = "download_writing"
    /\ UNCHANGED <<all_products, merged, remerged, prod, years, next_data, pubs, om,
                   pdf_url, path, net, runVars>>

\* one pass of the loop over r.iter_content
DownloadWrite ==
    /\ pc = "download_writing"
    /\ FileAt(files, TargetPath(prod, om)).written < FileAt(files, TargetPath(prod, om)).size
    /\ files' = ChunkWritten(files, TargetPath(prod, om))
    /\ UNCHANGED <<pc, all_products, merged, remerged, prod, years, next_data, pubs, om,
                   ret, resp, pdf_url, path, calls, net, runVars>>

\* the connection breaks while the body is read: iter_content raises
DownloadBreak ==
    /\ pc = "download_writing"
    /\ FileAt(files, TargetPath(prod, om)).written < FileAt(files, TargetPath(prod, om)).size
    /\ ret' = Raised("ChunkedEncodingError")
    /\ calls' = Append(calls, CallRecord(ret', 1, files, TargetPath(prod, om)))
    /\ pc' = "download_input"
    /\ UNCHANGED <<all_products, merged, remerged, prod, years, next_data, pubs, om,
                   resp, pdf_url, path, files, net, runVars>>

\* the body is written: download_pdf returns the path
DownloadSaved ==
    /\ pc = "download_writing"
    /\ FileAt(files, TargetPath(prod, om)).written = FileAt(files, TargetPath(prod, om)).size
    /\ ret' = PyStr(TargetPath(prod, om))
    /\ calls' = Append(calls, CallRecord(ret', 1, files, TargetPath(prod, om)))
    /\ pc' = "download_input"
    /\ UNCHANGED <<all_products, merged, remerged, prod, years, next_data, pubs, om,
                   resp, pdf_url, path, files, net, runVars>>

NextDownload ==
    DownloadCall \/ DownloadRespond \/ DownloadWrite \/ DownloadBreak \/ DownloadSaved

SpecDownload == InitDownload /\ [][NextDownload]_vars

\* C8: once a call of download_pdf has returned a path, every later call with the
\* same url, product and publication sends no request, leaves the file as it was
\* and returns the same path; two calls of which the first returned make exactly
\* one network transfer.
C8_DownloadIdempotent ==
    /\ \A i, j \in 1..Len(calls) :
           (i < j /\ calls[i].ret.t = "str") =>
               /\ calls[j].ret = calls[i].ret
               /\ calls[j].sent = 0
               /\ calls[j].file = calls[i].file
    /\ (Len(calls) >= 2 /\ calls[1].ret.t = "str") => net.download = 1

\* Two calls returned: the first wrote a body of two chunks, the second sent nothing.
C8_Witness ==
    /\ Len(calls) = 2
    /\ calls[1].ret.t = "str" /\ calls[1].sent = 1
    /\ calls[1].file.written = 2 /\ calls[1].file.size = 2
    /\ calls[2].ret = calls[1].ret /\ calls[2].sent = 0
    /\ net.download = 1

(***************************************************************************)
(* main: the catalog fetch, the merge and the loop over the products.      *)
(* An action runs main from one answer of the network up to the next       *)
(* request.  The locals of an iteration are cleared when it ends: each is  *)
(* assigned again before it is read.  An exception ends the run where it   *)
(* was raised, with the locals as they were.                               *)
(***************************************************************************)
PRODUCT_LIMIT == 15
MERGE_PRODUCTS == TRUE

\* html without the script tag, with one whose text is not JSON, or with a payload
Html(script) == [t |-> "html", script |-> script]

\* parse_next_data(html): None without the tag or when its text is not JSON
parse_next_data(html) ==
    IF html.script = PyNone THEN PyNone
    ELSE IF html.script = NotJson THEN PyNone
    ELSE html.script

\* products of main, from the fetched list
products_of_NoLimit(L) == IF MERGE_PRODUCTS THEN merge_products_latest(L) ELSE L

products_of(L) ==
    LET base_list == IF MERGE_PRODUCTS THEN merge_products_latest(L) ELSE L
    IN  IF PRODUCT_LIMIT # 0 THEN Take(base_list, PRODUCT_LIMIT) ELSE base_list

\* where main can end with an exception
FailedAt == {"failed_catalog", "failed_page", "failed_link", "failed_download"}

\* the diagnostics of an iteration that gives its product up
SkipDiagnostics ==
    {"No __NEXT_DATA__ found", "No EN Owner's Manual on this page.",
     "Missing keys for pdfLink", "pdfLink error", "Direct PDF URL: None"}

\* the iteration ends (continue, or the end of the body) with this diagnostic
EndIteration(diagnostic) ==
    /\ outcome' = diagnostic
    /\ idx' = idx + 1
    /\ pc' = "loop"
    /\ prod' = PyNone /\ years' = <<>> /\ next_data' = PyNone /\ pubs' = <<>>
    /\ om' = PyNone /\ pdf_url' = PyNone /\ ret' = PyNone /\ resp' = PyNone
    /\ path' = <<>>

(***************************************************************************)
(* Inputs of main                                                          *)
(***************************************************************************)

\* the number of vehicles of the largest catalog
MaxVehicles == 16

\* n vehicles that differ in the vendor model identifier only
Fleet(n) ==
    [i \in 1..n |-> Product(Sample.Toyota, Sample.RAV4, Sample.XA50, PyInt(i), PyInt(2024), Sample.d2021_06_15)]

\* The catalogs the vendor may report: none, three variants of one vehicle (years
\* 2022 to 2024, the 2024 one built last), two vehicles of which one has two
\* variants, and a fleet of more vehicles than PRODUCT_LIMIT.
Catalogs ==
    {<<>>,
     <<Product(Sample.Toyota, Sample.RAV4, Sample.XA50, PyInt(100), Sample.y2022, Sample.d2019_01_01),
       Product(Sample.Toyota, Sample.RAV4, Sample.XA50, PyInt(100), Sample.y2024, Sample.d2021_06_15T),
       Product(Sample.Toyota, Sample.RAV4, Sample.XA50, PyInt(100), Sample.y2023, Sample.d2021_06_15)>>,
     <<Product(Sample.ToyotaLexus, Sample.RAV4, Sample.XA50, PyInt(100), Sample.y2023, Sample.d2021_06_15),
       Product(Sample.Toyota, Sample.RAV4, PyNone, PyInt(200), PyNone, PyNone),
       Product(Sample.ToyotaLexus, Sample.RAV4, Sample.XA50, PyInt(100), Sample.y2022, Sample.d2019_01_01)>>,
     Fleet(MaxVehicles)}

CatalogResponses ==
    {Response(200, PyList(c)) : c \in Catalogs}
        \cup {Response(500, NotJson), Response(503, NotJson), Response(200, NotJson),
              Raised("ConnectionError")}

\* an object of a payload with the fields of a publication
PubNode(pn, type, lang, date, modelType) ==
    PyDict(<<[k |-> "partNumber", v |-> pn], [k |-> "type", v |-> type],
             [k |-> "language", v |-> lang], [k |-> "lineOffDate", v |-> date],
             [k |-> "modelType", v |-> modelType]>>)

\* The pages of the portal: without the script tag, with a payload that is not JSON,
\* with an empty payload, with a service manual and a French Owner's Manual only,
\* with English Owner's Manuals (the newest one complete, or lacking its model
\* type), and two whose payload the walk or the selection cannot digest: a part
\* number that is an object, a line-off date that is a number.
Pages ==
    {Html(PyNone), Html(NotJson), Html(PyDict(<<>>)),
     Html(FlatPayload(<<PubNode(Sample.PartA, Sample.SM, Sample.EnGB, Sample.d2023_01_01, Sample.XA50),
                        PubNode(Sample.PartB, sOM, Sample.Fr, Sample.d2023_01_01, Sample.XA50)>>)),
     Html(FlatPayload(<<PubNode(Sample.PartA, sOM, Sample.EnGB, Sample.d2020_01_01, Sample.XA50),
                        PubNode(Sample.PartB, sOM, Sample.EnGB, Sample.d2022_03_01T, Sample.XA50),
                        PubNode(Sample.PartA, Sample.SM, Sample.Fr, Sample.d2023_01_01, Sample.XA50)>>)),
     Html(FlatPayload(<<PubNode(Sample.PartA, sOM, Sample.EnGB, Sample.d2022_03_01, PyNone)>>)),
     Html(FlatPayload(<<PubNode(PyDict(<<[k |-> "partNumber", v |-> Sample.PartA]>>),
                                sOM, Sample.EnGB, Sample.d2022_03_01, Sample.XA50)>>)),
     Html(FlatPayload(<<PubNode(Sample.PartA, sOM, Sample.EnGB, PyInt(20220301), Sample.XA50)>>))}

PageResponses ==
    {Response(200, page) : page \in Pages}
        \cup {Response(404, Html(PyNone)), Response(503, Html(PyNone)),
              Raised("ConnectionError")}

\* the answers of the PDF-link endpoint that main tells apart
MainLinkResponses ==
    {Response(200, PyDict(<<[k |-> "url", v |-> Sample.Url]>>)),
     Response(200, PyDict(<<[k |-> "error", v |-> Sample.NA]>>)),
     Response(200, NotJson),
     Response(400, PyDict(<<[k |-> "error", v |-> Sample.NA]>>)),
     Response(404, NotJson),
     Response(500, NotJson),
     Response(401, NotJson),
     Response(503, NotJson),
     Raised("ConnectionError")}

(***************************************************************************)
(* Spec: a run of main                                                     *)
(***************************************************************************)
Init ==
    /\ pc = "start"
    /\ NoCatalog /\ NoYears /\ NoPage /\ NoCall /\ NoRun

\* main, lines 251-258: the catalog is fetched and merged
GetProducts ==
    /\ pc = "start"
    /\ net' = CountRequest(net, "catalog")
    /\ \E r \in CatalogResponses :
        /\ resp' = r
        /\ IF Delivered(r).t = "raised" \/ IsErrorStatus(r.status) \/ r.body = NotJson
           THEN /\ ret' = IF Delivered(r).t = "raised" THEN Delivered(r)
                          ELSE IF IsErrorStatus(r.status) THEN Raised("HTTPError")
                          ELSE Raised("JSONDecodeError")
                /\ pc' = "failed_catalog"
                /\ UNCHANGED <<all_products, merged, products, idx>>
           ELSE /\ ret' = ret
                /\ all_products' = r.body.items
                /\ merged' = IF MERGE_PRODUCTS THEN merge_products_latest(r.body.items)
                             ELSE r.body.items
                /\ products' = products_of(r.body.items)
                /\ idx' = 1
                /\ pc' = "loop"
    /\ UNCHANGED <<remerged, prod, years, next_data, pubs, om, pdf_url, path, calls, files,
                   visited, outcome>>

\* the body of the loop for products[idx], from pick_years_for_product to the
\* check of get_pdf_link; the page is fetched and searched
FetchPage ==
    /\ pc = "loop"
    /\ idx <= Len(products)
    /\ visited' = Append(visited, idx)
    /\ net' = CountRequest(net, "page")
    /\ \E r \in PageResponses :
        LET p == products[idx]
            nd == parse_next_data(r.body)
            ps == collect_publications(nd)
            selected == pick_latest_en_om(ps)
            fails == [prod |-> p, years |-> pick_years_for_product(p, all_products),
                      next_data |-> PyNone, pubs |-> <<>>, raised |-> "none"]
        IN  IF Delivered(r).t = "raised"
            THEN /\ pc' = "failed_page" /\ ret' = Delivered(r) /\ resp' = r
                 /\ prod' = p /\ years' = fails.years
                 /\ UNCHANGED <<next_data, pubs, om, idx, outcome>>
            ELSE IF ~Truthy(nd)
            THEN EndIteration("No __NEXT_DATA__ found")
            ELSE IF collect_publications_raises(nd)
            THEN /\ pc' = "failed_page" /\ ret' = Raised("TypeError") /\ resp' = r
                 /\ prod' = p /\ years' = fails.years /\ next_data' = nd
                 /\ UNCHANGED <<pubs, om, idx, outcome>>
            ELSE IF pick_latest_en_om_raises(ps)
            THEN /\ pc' = "failed_page" /\ ret' = Raised("AttributeError") /\ resp' = r
                 /\ prod' = p /\ years' = fails.years /\ next_data' = nd /\ pubs' = ps
                 /\ UNCHANGED <<om, idx, outcome>>
            ELSE IF selected = PyNone
            THEN EndIteration("No EN Owner's Manual on this page.")
            ELSE IF ~get_pdf_link_ready(selected)
            THEN EndIteration("Missing keys for pdfLink")
            ELSE /\ pc' = "link" /\ resp' = r /\ ret' = ret
                 /\ prod' = p /\ years' = fails.years /\ next_data' = nd /\ pubs' = ps
                 /\ om' = selected
                 /\ UNCHANGED <<idx, outcome>>
    /\ UNCHANGED <<all_products, merged, remerged, pdf_url, path, calls, files, products>>

\* get_pdf_link from session.send on, and download_pdf up to its request
ResolveLink ==
    /\ pc = "link"
    /\ net' = CountRequest(net, "link")
    /\ \E r \in MainLinkResponses :
        LET link == get_pdf_link_result(Delivered(r))
        IN  IF link.t = "raised"
            THEN /\ pc' = "failed_link" /\ ret' = link /\ resp' = r
                 /\ UNCHANGED <<prod, years, next_data, pubs, om, pdf_url, path, idx, outcome>>
            ELSE IF Delivered(r).status \in SoftStatuses
            THEN EndIteration("pdfLink error")
            ELSE IF ~Truthy(link)
            THEN EndIteration("Direct PDF URL: None")
            ELSE IF download_pdf_skips(files, prod, om)
            THEN EndIteration("Skip download (exists)")
            ELSE /\ pc' = "download" /\ pdf_url' = link /\ resp' = r /\ ret' = ret
                 /\ path' = TargetPath(prod, om)
                 /\ UNCHANGED <<prod, years, next_data, pubs, om, idx, outcome>>
    /\ UNCHANGED <<all_products, merged, remerged, calls, files, products, visited>>

\* download_pdf from session.get to open(path, "wb")
StartDownload ==
    /\ pc = "download"
    /\ net' = CountRequest(net, "download")
    /\ \E r \in DownloadResponses :
        /\ resp' = r
        /\ IF Delivered(r).t = "raised" \/ IsErrorStatus(r.status)
           THEN /\ ret' = IF Delivered(r).t = "raised" THEN Delivered(r) ELSE Raised("HTTPError")
                /\ pc' = "failed_download"
                /\ files' = files
           ELSE /\ ret' = ret
                /\ pc' = "writing"
                /\ files' = Opened(files, path, pdf_url, r.body)
    /\ UNCHANGED <<all_products, merged, remerged, prod, years, next_data, pubs, om,
                   pdf_url, path, calls, runVars>>

\* one pass of the loop over r.iter_content
WriteChunk ==
    /\ pc = "writing"
    /\ FileAt(files, path).written < FileAt(files, path).size
    /\ files' = ChunkWritten(files, path)
    /\ UNCHANGED <<pc, all_products, merged, remerged, prod, years, next_data, pubs, om,
                   ret, resp, pdf_url, path, calls, net, runVars>>

\* the connection breaks while the body is read: iter_content raises
BreakStream ==
    /\ pc = "writing"
    /\ FileAt(files, path).written < FileAt(files, path).size
    /\ ret' = Raised("ChunkedEncodingError")
    /\ pc' = "failed_download"
    /\ UNCHANGED <<all_products, merged, remerged, prod, years, next_data, pubs, om,
                   resp, pdf_url, path, calls, files, net, runVars>>

\* the body is written: download_pdf returns and the iteration ends
Saved ==
    /\ pc = "writing"
    /\ FileAt(files, path).written = FileAt(files, path).size
    /\ EndIteration("Saved")
    /\ UNCHANGED <<all_products, merged, remerged, calls, files, net, products, visited>>

\* the loop is over: main returns
Finish ==
    /\ pc = "loop"
    /\ idx > Len(products)
    /\ pc' = "done"
    /\ UNCHANGED <<all_products, merged, remerged, prod, years, next_data, pubs, om,
                   callVars, runVars>>

Next ==
    \/ GetProducts \/ FetchPage \/ ResolveLink \/ StartDownload
    \/ WriteChunk \/ BreakStream \/ Saved \/ Finish

Spec == Init /\ [][Next]_vars

\* C9: none of the conditions that make main give a product up ends the run: after
\* such a diagnostic main stands before the next product, and when main did end
\* with an exception in the page or the link step, the cause was none of them: not
\* a page without a JSON payload, not a page without an English Owner's Manual, not
\* a manual lacking a required field, not a status 400, 404 or 500 of the link
\* endpoint and not a 2xx answer whose JSON object has no url.
C9_SkipsStayLocal ==
    LET answered == resp.t = "response" /\ resp.status \notin {429, 502, 503, 504}
        englishOM(p) ==
            /\ p.publicationType = PyStr(<<"O", "M">>)
            /\ p.language.t = "str"
            /\ Len(p.language.v) >= 2
            /\ p.language.v[1] \in {"e", "E"} /\ p.language.v[2] \in {"n", "N"}
        present(x) == x.t = "str" /\ x.v # <<>>
    IN  /\ (pc = "loop" /\ outcome \in SkipDiagnostics) =>
               idx = Len(visited) + 1 /\ idx <= Len(products) + 1
        /\ pc = "failed_page" =>
               \/ ~answered
               \/ /\ resp.body.script \notin {PyNone, NotJson, PyDict(<<>>)}
                  /\ ret \in {Raised("TypeError"), Raised("AttributeError")}
                  /\ ret = Raised("AttributeError") =>
                         \E i \in 1..Len(pubs) : englishOM(pubs[i])
        /\ pc = "failed_link" =>
               /\ present(om.partNumber) /\ present(om.modelType)
               /\ om.lineOffDate.t = "str" /\ BeforeT(om.lineOffDate.v) # <<>>
               /\ \/ ~answered
                  \/ /\ resp.status \notin {400, 404, 500}
                     /\ ~(resp.status >= 200 /\ resp.status < 300 /\ resp.body.t = "dict")

\* After a status 400, 404 or 500 of the link endpoint main stands before a further
\* product.
C9_Witness ==
    /\ pc = "loop"
    /\ outcome = "pdfLink error"
    /\ idx = 2 /\ Len(products) > 2
    /\ net.link = 1

\* C10 as claimed: when main returns, every product of the merged list has been
\* through the body of the loop.
C10_EveryMergedProductProcessed ==
    pc = "done" =>
        \A i \in 1..Len(merged) :
            \E j \in 1..Len(visited) : products[visited[j]] = merged[i]

\* C10, amended: the products are taken one at a time in the order of the merged
\* list, and when main returns, the first 15 products of the merged list, and no
\* others, have each been through the body of the loop once.
C10_FirstFifteenProcessed ==
    /\ visited = [i \in 1..Len(visited) |-> i]
    /\ \A i \in 1..Len(visited) : products[visited[i]] = merged[i]
    /\ pc \in {"link", "download", "writing"} => idx = Len(visited)
    /\ pc = "loop" => idx = Len(visited) + 1
    /\ pc = "done" => Len(visited) = (IF Len(merged) < 15 THEN Len(merged) ELSE 15)

\* Of 16 merged products main processed 15 and returned.
C10_Witness ==
    pc = "done" /\ Len(merged) = 16 /\ Len(visited) = 15

(***************************************************************************)
(* SpecRetry: one GET of the pipeline through the session.  The adapter    *)
(* mounted for the URL sends it, and sends it again as its Retry object    *)
(* allows.  calls logs what each attempt met: a status, or 0 when the      *)
(* connection failed.                                                      *)
(***************************************************************************)
API ==
    <<"h", "t", "t", "p", "s", ":", "/", "/", "d", "i", "v", "a", "-", "a", "p", "i", ".", "t",
      "w", "e", "d", "d", "l", "e", ".", "a", "p", "p">>

PORTAL ==
    <<"h", "t", "t", "p", "s", ":", "/", "/", "c", "u", "s", "t", "o", "m", "e", "r", "p", "o",
      "r", "t", "a", "l", ".", "t", "w", "e", "d", "d", "l", "e", "-", "a", "w", "s", ".", "e",
      "u">>

\* the prefix the retrying adapter is mounted on
sHttps == <<"h", "t", "t", "p", "s", ":", "/", "/">>

\* Retry(total=3, ...)
RetryTotal == 3

\* the Retry object of the adapter session.get_adapter(url) picks: the mounted one
\* for a URL that starts with https:// (compared in lower case), else the session's
\* default adapter with Retry(0, read=False)
max_retries(url) ==
    IF StartsWith(Lower(url), sHttps)
    THEN [total |-> RetryTotal, status_forcelist |-> StatusForcelist]
    ELSE [total |-> 0, status_forcelist |-> {}]

\* the catalog, a publications page, the link endpoint, and download URLs as the
\* link endpoint may name them
RetryUrls ==
    {PyStr(API \o <<"/", "p", "u", "b", "h", "u", "b", "/", "i", "n", "f", "o", "/",
                    "p", "r", "o", "d", "u", "c", "t", "s">>),
     PyStr(PORTAL \o <<"/", "p", "u", "b", "l", "i", "c", "a", "t", "i", "o", "n", "s">>),
     PyStr(API \o <<"/", "p", "u", "b", "l", "i", "c", "a", "t", "i", "o", "n", "s", "/",
                    "c", "o", "n", "t", "e", "n", "t", "/", "p", "d", "f", "L", "i", "n", "k">>),
     Sample.Url, Sample.UpperUrl, Sample.HttpUrl}

InitRetry ==
    /\ pc = "retry_input"
    /\ pdf_url \in RetryUrls
    /\ ret = PyNone /\ resp = PyNone /\ path = <<>> /\ calls = <<>>
    /\ files = {} /\ net = NoRequests
    /\ NoCatalog /\ NoYears /\ NoPage /\ NoRun

\* the adapter sends the GET: the first attempt, or one more after a backoff
RetrySend ==
    /\ pc \in {"retry_input", "retry_backoff"}
    /\ pc' = "retry_sent"
    /\ UNCHANGED <<all_products, merged, remerged, prod, years, next_data, pubs, om,
                   callVars, runVars>>

\* the attempt meets a status or a failed connection; Retry.increment decides
RetryAnswer ==
    /\ pc = "retry_sent"
    /\ \E status \in {0, 200, 404, 429, 500, 502, 503, 504} :
        LET retry == max_retries(pdf_url.v)
            retried == status = 0 \/ status \in retry.status_forcelist
            exhausted == Len(calls) + 1 > retry.total
        IN  /\ calls' = Append(calls, status)
            /\ IF ~retried
               THEN /\ pc' = "retry_returned"
                    /\ resp' = Response(status, PyNone) /\ ret' = resp'
               ELSE IF exhausted
               THEN /\ pc' = "retry_raised"
                    /\ resp' = resp
                    /\ ret' = Raised(IF status = 0 THEN "ConnectionError" ELSE "RetryError")
               ELSE /\ pc' = "retry_backoff"
                    /\ resp' = resp /\ ret' = ret
    /\ UNCHANGED <<all_products, merged, remerged, prod, years, next_data, pubs, om,
                   pdf_url, path, files, net, runVars>>

NextRetry == RetrySend \/ RetryAnswer

SpecRetry == InitRetry /\ [][NextRetry]_vars

\* C11: every GET of the pipeline is under the retry policy: it is sent at most 4
\* times, only a status 429, 502, 503 or 504 (or a failed connection) has it sent
\* again, a response with one of these statuses is never handed to the caller, and
\* any other response is handed over at once.
C11_EveryCallRetried ==
    LET triggers(x) == x = 0 \/ x \in {429, 502, 503, 504}
    IN  /\ Len(calls) <= 4
        /\ \A i \in 1..(Len(calls) - 1) : triggers(calls[i])
        /\ pc = "retry_backoff" => triggers(calls[Len(calls)])
        /\ pc = "retry_returned" =>
               ret.status = calls[Len(calls)] /\ ret.status \notin {429, 502, 503, 504}
        /\ (pc = "retry_raised" /\ calls[Len(calls)] # 0) =>
               Len(calls) = 4 /\ \A i \in 1..Len(calls) : triggers(calls[i])

(***************************************************************************)
(* SpecName: make_named_pdf called for one download and then for another.  *)
(* calls holds, per call, the components and the name returned.            *)
(***************************************************************************)
\* (brand, model, model_type, year, part_number): empty, made of replaced characters
\* only, with a "/", with spaces, plain, and the text of the fallback
NameArgs ==
    {<<brand, model, model_type, year, part_number>> :
        brand \in {PyStr(<<>>), Sample.Slash, Sample.ToyotaLexus, Sample.Toyota_Lexus},
        model \in {PyStr(<<>>), Sample.Spaced, Sample.RAV4},
        model_type \in {PyStr(<<>>), Sample.Slash},
        year \in {PyNone, Sample.y2024},
        part_number \in {PyStr(<<>>), Sample.PartA, PyStr(sManual)}}

InitName ==
    /\ pc = "name_input"
    /\ calls = <<>>
    /\ ret = PyNone /\ resp = PyNone /\ pdf_url = PyNone /\ path = <<>>
    /\ files = {} /\ net = NoRequests
    /\ NoCatalog /\ NoYears /\ NoPage /\ NoRun

\* name = make_named_pdf(brand, model, model_type, year, pn), for two downloads
MakeName ==
    /\ pc = "name_input"
    /\ Len(calls) < 2
    /\ \E a \in NameArgs :
        /\ ret' = PyStr(make_named_pdf(a[1], a[2], a[3], a[4], a[5]))
        /\ calls' = Append(calls, [args |-> a, name |-> ret'.v])
    /\ UNCHANGED <<pc, all_products, merged, remerged, prod, years, next_data, pubs, om,
                   resp, pdf_url, path, files, net, runVars>>

NextName == MakeName

SpecName == InitName /\ [][NextName]_vars

\* C12: the name is the components that are neither empty nor left empty by the
\* replacing and stripping, sanitized and joined with dots, spaces turned to
\* underscores, with ".pdf" appended; without such a component it is "manual.pdf".
C12_DropsEmptyComponents ==
    \A c \in 1..Len(calls) :
        LET sanitized(x) ==
                Take(StripRight(StripLeft(
                    [i \in 1..Len(x) |->
                        IF IsAlnumChar(x[i]) \/ x[i] \in {".", "_", "-", " "}
                        THEN x[i] ELSE "_"])), 200)
            stays(x) == x.t = "str" /\ x.v # <<>> /\ sanitized(x.v) # <<>>
            kept == SelectSeq(calls[c].args, stays)
            segments == [i \in 1..Len(kept) |-> sanitized(kept[i].v)]
            base == IF kept = <<>> THEN <<"m", "a", "n", "u", "a", "l">>
                    ELSE JoinDots(segments)
        IN  calls[c].name =
                [i \in 1..Len(base) |-> IF base[i] = " " THEN "_" ELSE base[i]]
                    \o <<".", "p", "d", "f">>

\* C13: every name make_named_pdf returns ends in ".pdf" and is made of letters,
\* digits, ".", "_" and "-" only: it holds no "/" and no space.
C13_NameIsClean ==
    \A c \in 1..Len(calls) :
        LET name == calls[c].name
            n == Len(name)
            letterOrDigit(ch) ==
                \/ Ord(ch) >= 48 /\ Ord(ch) <= 57
                \/ Ord(ch) >= 65 /\ Ord(ch) <= 90
                \/ Ord(ch) >= 97 /\ Ord(ch) <= 122
        IN  /\ n >= 4 /\ SubSeq(name, n - 3, n) = <<".", "p", "d", "f">>
            /\ \A i \in 1..n : letterOrDigit(name[i]) \/ name[i] \in {".", "_", "-"}
            /\ \A i \in 1..n : name[i] # "/" /\ name[i] # " "

\* The name of (Toyota/Lexus, " RAV 4 ", "", 2024, OM12345) was built: the "/" and
\* the inner space came out as underscores.
C13_Witness ==
    /\ Len(calls) >= 1
    /\ calls[1].args = <<Sample.ToyotaLexus, Sample.Spaced, PyStr(<<>>), Sample.y2024, Sample.PartA>>
    /\ calls[1].name = Sample.Toyota_Lexus.v \o <<".", "R", "A", "V", "_", "4", ".">>
                           \o Sample.y2024.v \o <<".">> \o Sample.PartA.v \o <<".", "p", "d", "f">>

\* C15: two downloads whose (brand, model, modelType, year, part number) differ are
\* given different names, hence different target paths.
C15_DistinctTuplesDistinctPaths ==
    \A i, j \in 1..Len(calls) :
        calls[i].args # calls[j].args => calls[i].name # calls[j].name

\* C14: a call of download_pdf that is interrupted while the body is read leaves
\* the file at the target path with a part of the body; once a file is at the
\* path, whole or not, every later call for the same product and publication
\* sends no request, leaves the file as it is and returns the path.
C14_ResumeGap ==
    /\ \A i \in 1..Len(calls) :
           calls[i].ret = Raised("ChunkedEncodingError") =>
               /\ calls[i].file # PyNone
               /\ calls[i].file.written < calls[i].file.size
    /\ \A i, j \in 1..Len(calls) :
           (i < j /\ calls[i].file # PyNone) =>
               /\ calls[j].sent = 0
               /\ calls[j].file = calls[i].file
               /\ calls[j].ret = PyStr(calls[i].file.path)
    /\ (calls # <<>> /\ calls[Len(calls)].file # PyNone /\ pc = "download_input") =>
           files = {calls[Len(calls)].file}

\* The first call broke after one chunk of two; the second returned the path of the
\* half-written file without a request.
C14_Witness ==
    /\ Len(calls) = 2
    /\ calls[1].ret = Raised("ChunkedEncodingError") /\ calls[1].sent = 1
    /\ calls[1].file.written = 1 /\ calls[1].file.size = 2
    /\ calls[2].ret = PyStr(calls[1].file.path) /\ calls[2].sent = 0
    /\ calls[2].file.written = 1
    /\ net.download = 1

====
